---- MODULE Spec2Model ----
(***************************************************************************)
(* Model of scrape.py: one fetch of the Hacker News front page, selection  *)
(* of the ".titleline" and ".subtext" nodes, create_custom_hn over the two *)
(* lists (create_story / extract_score per index), sort_stories_by_votes,  *)
(* and one pprint of the result.                                           *)
(*                                                                         *)
(* An optional value (None or a value) is a sequence of length 0 or 1.     *)
(* A score text is a sequence of one-character strings, so that            *)
(* str.replace and int() are computed rather than assumed.                 *)
(***************************************************************************)
EXTENDS Integers, Sequences, FiniteSets, Bags

VARIABLES pc, err, soup, links, subtext, index, filtered_stories, result,
          stdout, requests_sent

vars == <<pc, err, soup, links, subtext, index, filtered_stories, result,
          stdout, requests_sent>>

\* Longest ".titleline" list and longest ".subtext" list of a fetched page.
MaxLinks == 2
MaxSubtext == 2

\* The filter of create_story: a story is kept when score > 100.
Threshold == 100

----------------------------------------------------------------------------
\* Text helpers: Python's str.replace and int().

Digits == <<"0", "1", "2", "3", "4", "5", "6", "7", "8", "9">>

IsDigit(c) == \E i \in 1..10 : Digits[i] = c

DigitVal(c) == (CHOOSE i \in 1..10 : Digits[i] = c) - 1

\* The literal suffix removed by extract_score.
PointsLabel == <<" ", "p", "o", "i", "n", "t", "s">>

\* s.replace(old, new): every non-overlapping occurrence, left to right.
RECURSIVE StrReplace(_, _, _)
StrReplace(s, old, new) ==
    IF Len(s) < Len(old) THEN s
    ELSE IF SubSeq(s, 1, Len(old)) = old
         THEN new \o StrReplace(SubSeq(s, Len(old) + 1, Len(s)), old, new)
         ELSE <<Head(s)>> \o StrReplace(Tail(s), old, new)

\* int() strips surrounding whitespace first.
RECURSIVE LStrip(_)
LStrip(s) == IF s # <<>> /\ Head(s) = " " THEN LStrip(Tail(s)) ELSE s

RECURSIVE RStrip(_)
RStrip(s) ==
    IF s # <<>> /\ s[Len(s)] = " " THEN RStrip(SubSeq(s, 1, Len(s) - 1)) ELSE s

\* The digit part of an int literal: digits, single underscores between them.
DigitsWellFormed(s) ==
    /\ s # <<>>
    /\ IsDigit(s[1])
    /\ IsDigit(s[Len(s)])
    /\ \A i \in 1..Len(s) : IsDigit(s[i]) \/ s[i] = "_"
    /\ \A i \in 1..(Len(s) - 1) : ~(s[i] = "_" /\ s[i + 1] = "_")

RECURSIVE DigitsValue(_, _)
DigitsValue(s, acc) ==
    IF s = <<>> THEN acc
    ELSE IF Head(s) = "_" THEN DigitsValue(Tail(s), acc)
         ELSE DigitsValue(Tail(s), 10 * acc + DigitVal(Head(s)))

\* int(s): <<n>> when s is a base-10 integer literal, <<>> for ValueError.
PyInt(s) ==
    LET t    == RStrip(LStrip(s))
        sgn  == t # <<>> /\ Head(t) \in {"+", "-"}
        body == IF sgn THEN Tail(t) ELSE t
    IN IF ~DigitsWellFormed(body) THEN <<>>
       ELSE IF sgn /\ Head(t) = "-" THEN <<0 - DigitsValue(body, 0)>>
            ELSE <<DigitsValue(body, 0)>>

----------------------------------------------------------------------------
\* The pages the fetch can return.

\* Texts of a ".score" element.
T100 == <<"1", "0", "0">> \o PointsLabel
T150 == <<"1", "5", "0">> \o PointsLabel
T500 == <<"5", "0", "0">> \o PointsLabel
TPlus500 == <<"+", "5", "0", "0">> \o PointsLabel
TSingular == <<"1", " ", "p", "o", "i", "n", "t">>

ScoreTexts == {T100, T150, T500, TPlus500, TSingular}

\* A ".subtext" node: the texts of its ".score" descendants, in document order.
SubtextNodes == {[score |-> <<>>]} \cup {[score |-> <<t>>] : t \in ScoreTexts}

\* A ".titleline" node: its first <a> descendant, if any; an anchor has its
\* text and, if present, the value of its href attribute.
Anchors ==
    { [text |-> "X", href |-> <<"http://x">>],
      [text |-> "Y", href |-> <<"http://y">>],
      [text |-> "E", href |-> <<"">>],
      [text |-> "N", href |-> <<>>] }

LinkNodes == {[a |-> <<>>]} \cup {[a |-> <<t>>] : t \in Anchors}

RECURSIVE SeqsUpTo(_, _)
SeqsUpTo(S, n) ==
    IF n = 0 THEN {<<>>}
    ELSE LET shorter == SeqsUpTo(S, n - 1)
         IN shorter \cup {Append(s, x) : s \in {t \in shorter : Len(t) = n - 1}, x \in S}

Documents ==
    [titleline : SeqsUpTo(LinkNodes, MaxLinks), subtext : SeqsUpTo(SubtextNodes, MaxSubtext)]

NoDocument == [titleline |-> <<>>, subtext |-> <<>>]

----------------------------------------------------------------------------
\* The functions of scrape.py.

\* extract_score without the "if vote" guard: vote[0] raises on an empty list.
extract_score_unguarded(subtext_item) ==
    LET vote == subtext_item.score
    IN IF vote # <<>> THEN PyInt(StrReplace(vote[1], PointsLabel, <<>>)) ELSE <<>>

\* extract_score that also strips the singular " point".
extract_score_singular(subtext_item) ==
    LET vote == subtext_item.score
    IN IF vote # <<>>
       THEN PyInt(StrReplace(StrReplace(vote[1], PointsLabel, <<>>),
                             <<" ", "p", "o", "i", "n", "t">>, <<>>))
       ELSE <<0>>

\* int(text.replace(" points", "")) for each score text of the pages, computed
\* once: <<n>>, or <<>> when int() raises ValueError.
ParsedScore == [t \in ScoreTexts |-> PyInt(StrReplace(t, PointsLabel, <<>>))]

\* extract_score: <<n>> on return, <<>> when int() raises ValueError.
extract_score(subtext_item) ==
    LET vote == subtext_item.score
    IN IF vote # <<>> THEN ParsedScore[vote[1]] ELSE <<0>>

\* create_story keeping a story when score >= 100.
create_story_inclusive(link, subtext_item) ==
    LET a_tag == link.a
        score == extract_score(subtext_item)
    IN IF a_tag # <<>> /\ a_tag[1].href # <<>> /\ a_tag[1].href[1] # ""
       THEN IF score = <<>>
            THEN [raised |-> TRUE, value |-> <<>>]
            ELSE IF score[1] >= Threshold
                 THEN [raised |-> FALSE,
                       value |-> <<[Title |-> a_tag[1].text, href |-> a_tag[1].href[1],
                                    Score |-> score[1]]>>]
                 ELSE [raised |-> FALSE, value |-> <<>>]
       ELSE [raised |-> FALSE, value |-> <<>>]

\* create_story testing only "if a_tag", with a_tag.get("href", "") as href.
create_story_any_anchor(link, subtext_item) ==
    LET a_tag == link.a
        score == extract_score(subtext_item)
    IN IF a_tag # <<>>
       THEN IF score = <<>>
            THEN [raised |-> TRUE, value |-> <<>>]
            ELSE IF score[1] > Threshold
                 THEN [raised |-> FALSE,
                       value |-> <<[Title |-> a_tag[1].text,
                                    href |-> IF a_tag[1].href = <<>> THEN ""
                                             ELSE a_tag[1].href[1],
                                    Score |-> score[1]]>>]
                 ELSE [raised |-> FALSE, value |-> <<>>]
       ELSE [raised |-> FALSE, value |-> <<>>]

\* create_story: raised, or the returned value (<<>> for None, <<dict>>).
create_story(link, subtext_item) ==
    LET a_tag == link.a
    IN IF a_tag # <<>> /\ a_tag[1].href # <<>> /\ a_tag[1].href[1] # ""
       THEN LET title == a_tag[1].text
                score == extract_score(subtext_item)
            IN IF score = <<>>
               THEN [raised |-> TRUE, value |-> <<>>]
               ELSE IF score[1] > Threshold
                    THEN [raised |-> FALSE,
                          value |-> <<[Title |-> title, href |-> a_tag[1].href[1],
                                       Score |-> score[1]]>>]
                    ELSE [raised |-> FALSE, value |-> <<>>]
       ELSE [raised |-> FALSE, value |-> <<>>]

RECURSIVE Reverse(_)
Reverse(s) == IF s = <<>> THEN <<>> ELSE Append(Reverse(Tail(s)), Head(s))

\* Stable insertion of x by ascending Score: after every element not above it.
RECURSIVE InsertByScore(_, _)
InsertByScore(s, x) ==
    IF s = <<>> THEN <<x>>
    ELSE IF Head(s).Score <= x.Score
         THEN <<Head(s)>> \o InsertByScore(Tail(s), x)
         ELSE <<x>> \o s

RECURSIVE StableSortAscending(_)
StableSortAscending(s) ==
    IF s = <<>> THEN <<>>
    ELSE InsertByScore(StableSortAscending(SubSeq(s, 1, Len(s) - 1)), s[Len(s)])

\* Ascending order: reverse=True forgotten.
sort_ascending(stories) == StableSortAscending(stories)

\* Descending order by sorting ascending and reversing the outcome, which
\* turns the order of equal scores around.
sort_then_reverse(stories) == Reverse(StableSortAscending(stories))

\* sorted(stories, key=Score, reverse=True): the list is reversed, sorted
\* stably in ascending order and reversed again.
sort_stories_by_votes(stories) == Reverse(StableSortAscending(Reverse(stories)))

----------------------------------------------------------------------------
\* The run.

Init ==
    /\ pc = "fetch"
    /\ err = "none"
    /\ soup = NoDocument
    /\ links = <<>>
    /\ subtext = <<>>
    /\ index = 0
    /\ filtered_stories = <<>>
    /\ result = <<>>
    /\ stdout = <<>>
    /\ requests_sent = 0

\* line 131: requests.get succeeds and the body is parsed.
FetchOk ==
    /\ pc = "fetch"
    /\ soup' \in Documents
    /\ requests_sent' = requests_sent + 1
    /\ pc' = "select_links"
    /\ UNCHANGED <<err, links, subtext, index, filtered_stories, result, stdout>>

\* A failed request that is tried again.
FetchFail_retry ==
    /\ pc = "fetch"
    /\ requests_sent' = requests_sent + 1
    /\ UNCHANGED <<pc, err, soup, links, subtext, index, filtered_stories, result,
                   stdout>>

\* line 131: requests.get raises; nothing catches it.
FetchFail ==
    /\ pc = "fetch"
    /\ requests_sent' = requests_sent + 1
    /\ pc' = "error"
    /\ err' = "RequestException"
    /\ UNCHANGED <<soup, links, subtext, index, filtered_stories, result, stdout>>

\* line 132
SelectLinks ==
    /\ pc = "select_links"
    /\ links' = soup.titleline
    /\ pc' = "select_subtext"
    /\ UNCHANGED <<err, soup, subtext, index, filtered_stories, result, stdout,
                   requests_sent>>

\* line 133
SelectSubtext ==
    /\ pc = "select_subtext"
    /\ subtext' = soup.subtext
    /\ pc' = "call"
    /\ UNCHANGED <<err, soup, links, index, filtered_stories, result, stdout,
                   requests_sent>>

\* line 105: create_custom_hn is entered.
EnterCreateCustomHn ==
    /\ pc = "call"
    /\ filtered_stories' = <<>>
    /\ index' = 0
    /\ pc' = "loop"
    /\ UNCHANGED <<err, soup, links, subtext, result, stdout, requests_sent>>

\* The loop body over zip(links, subtext): a link without a metadata node is
\* passed over.
LoopBody_zip(i, stories) ==
    IF i + 1 > Len(subtext)
    THEN [exc |-> "none", stories |-> stories]
    ELSE LET story == create_story(links[i + 1], subtext[i + 1])
         IN IF story.raised
            THEN [exc |-> "ValueError", stories |-> stories]
            ELSE IF story.value # <<>>
                 THEN [exc |-> "none", stories |-> Append(stories, story.value[1])]
                 ELSE [exc |-> "none", stories |-> stories]

\* The loop body reading subtext[index - 1]; at index 0 that is the last node.
LoopBody_previous(i, stories) ==
    IF i + 1 > Len(subtext)
    THEN [exc |-> "IndexError", stories |-> stories]
    ELSE LET story == create_story(links[i + 1],
                                   subtext[IF i = 0 THEN Len(subtext) ELSE i])
         IN IF story.raised
            THEN [exc |-> "ValueError", stories |-> stories]
            ELSE IF story.value # <<>>
                 THEN [exc |-> "none", stories |-> Append(stories, story.value[1])]
                 ELSE [exc |-> "none", stories |-> stories]

\* The outcome of one pass through the loop body (lines 107-109) at Python
\* index i: the exception raised ("none" if none) and the list afterwards.
LoopBody(i, stories) ==
    IF i + 1 > Len(subtext)
    THEN [exc |-> "IndexError", stories |-> stories]
    ELSE LET story == create_story(links[i + 1], subtext[i + 1])
         IN IF story.raised
            THEN [exc |-> "ValueError", stories |-> stories]
            ELSE IF story.value # <<>>
                 THEN [exc |-> "none", stories |-> Append(stories, story.value[1])]
                 ELSE [exc |-> "none", stories |-> stories]

\* The loop with a try/except around it that keeps what was collected.
LoopIteration_keep_partial ==
    /\ pc = "loop"
    /\ index < Len(links)
    /\ LET out == LoopBody(index, filtered_stories)
       IN IF out.exc # "none"
          THEN /\ pc' = "print"
               /\ result' = sort_stories_by_votes(filtered_stories)
               /\ UNCHANGED <<err, index, filtered_stories>>
          ELSE /\ filtered_stories' = out.stories
               /\ index' = index + 1
               /\ UNCHANGED <<pc, err, result>>
    /\ UNCHANGED <<soup, links, subtext, stdout, requests_sent>>

\* lines 106-109: one iteration of the for loop.
LoopIteration ==
    /\ pc = "loop"
    /\ index < Len(links)
    /\ LET out == LoopBody(index, filtered_stories)
       IN IF out.exc # "none"
          THEN /\ pc' = "error"
               /\ err' = out.exc
               /\ UNCHANGED <<index, filtered_stories>>
          ELSE /\ filtered_stories' = out.stories
               /\ index' = index + 1
               /\ UNCHANGED <<pc, err>>
    /\ UNCHANGED <<soup, links, subtext, result, stdout, requests_sent>>

\* line 110: enumerate is exhausted; the list is sorted and returned.
SortAndReturn ==
    /\ pc = "loop"
    /\ index = Len(links)
    /\ result' = sort_stories_by_votes(filtered_stories)
    /\ pc' = "print"
    /\ UNCHANGED <<err, soup, links, subtext, index, filtered_stories, stdout,
                   requests_sent>>

\* line 134: pprint of the returned list.
PrettyPrint ==
    /\ pc = "print"
    /\ stdout' = Append(stdout, result)
    /\ pc' = "done"
    /\ UNCHANGED <<err, soup, links, subtext, index, filtered_stories, result,
                   requests_sent>>

Next ==
    \/ FetchOk
    \/ FetchFail
    \/ SelectLinks
    \/ SelectSubtext
    \/ EnterCreateCustomHn
    \/ LoopIteration
    \/ SortAndReturn
    \/ PrettyPrint

Spec == Init /\ [][Next]_vars

\* The script is sequential: a statement that can run does run.
FairSpec == Spec /\ WF_vars(Next)

----------------------------------------------------------------------------
\* What the input says, read off the nodes index by index (1-based here).

Letters ==
    {"a", "b", "c", "d", "e", "f", "g", "h", "i", "j", "k", "l", "m",
     "n", "o", "p", "q", "r", "s", "t", "u", "v", "w", "x", "y", "z"}

\* The link has an anchor that carries an href attribute (possibly empty).
HasHrefAttribute(link) == link.a # <<>> /\ link.a[1].href # <<>>

\* The link has an anchor whose href attribute is a non-empty string.
HasNonEmptyHref(link) == HasHrefAttribute(link) /\ link.a[1].href[1] # ""

\* The score of metadata node i is above the threshold.
ScoreAbove(i) ==
    LET sc == extract_score(subtext[i]) IN sc # <<>> /\ sc[1] > Threshold

\* The record that index i describes: link i's text and href, metadata i's score.
StoryAt(i) ==
    [Title |-> links[i].a[1].text, href |-> links[i].a[1].href[1],
     Score |-> extract_score(subtext[i])[1]]

Kept(i) == HasNonEmptyHref(links[i]) /\ ScoreAbove(i)

\* The kept records of indices 1..n, in input order.
RECURSIVE KeptUpTo(_)
KeptUpTo(n) ==
    IF n = 0 THEN <<>>
    ELSE KeptUpTo(n - 1) \o (IF Kept(n) THEN <<StoryAt(n)>> ELSE <<>>)

Occurrences(seq, r) == Cardinality({k \in DOMAIN seq : seq[k] = r})

WithScore(seq, v) == SelectSeq(seq, LAMBDA r : r.Score = v)

Final == pc \in {"done", "error"}

Returned == pc \in {"print", "done"}

\* The loop is about to process a link that has a paired metadata node.
AtPairedIndex == pc = "loop" /\ index < Len(links) /\ index < Len(subtext)

----------------------------------------------------------------------------
\* Properties.

\* C1 (threshold): every story of the returned list, and of anything
\* printed, has Score > 100; a score of exactly 100 is never kept.
C1_Threshold ==
    /\ \A i \in DOMAIN filtered_stories : filtered_stories[i].Score > Threshold
    /\ \A i \in DOMAIN result : result[i].Score > Threshold
    /\ \A k \in DOMAIN stdout : \A i \in DOMAIN stdout[k] : stdout[k][i].Score > Threshold

\* A run that returned a story although another index, with a usable link,
\* carried exactly 100 points.
C1_Witness ==
    /\ pc = "done"
    /\ result # <<>>
    /\ \E i \in DOMAIN links : HasNonEmptyHref(links[i]) /\ subtext[i].score = <<T100>>

\* C2 (sort): the returned list is ordered by Score, non-increasing.
C2_Sorted ==
    Returned => \A i \in 1..(Len(result) - 1) : result[i].Score >= result[i + 1].Score

\* A run whose sort changed the order of the collected stories.
C2_Witness ==
    /\ pc = "done"
    /\ Len(result) >= 2
    /\ result # filtered_stories
    /\ result[1].Score > result[Len(result)].Score

\* C3 (stability): among the kept stories of one Score, the returned list
\* keeps the order of their input indices.
C3_Stable ==
    Returned =>
        \A k \in DOMAIN result :
            WithScore(result, result[k].Score)
                = WithScore(KeptUpTo(Len(links)), result[k].Score)

\* A run that returned two different stories of equal Score.
C3_Witness ==
    /\ pc = "done"
    /\ \E i, j \in DOMAIN result :
          /\ i < j
          /\ result[i].Score = result[j].Score
          /\ result[i].Title # result[j].Title

\* C4 (skip): processing a link that has no anchor, or whose anchor has no
\* href attribute, appends nothing and raises nothing, whatever the paired
\* metadata node holds; the loop goes on to the next index.
C4_Skip ==
    [][(AtPairedIndex /\ ~HasHrefAttribute(links[index + 1]))
          => /\ filtered_stories' = filtered_stories
             /\ index' = index + 1
             /\ pc' = "loop"
             /\ err' = "none"]_vars

\* A finished run in which a link without an anchor was paired with an
\* unparsable score and a link whose anchor has no href with a high one.
C4_Witness ==
    /\ pc = "done"
    /\ \E i \in DOMAIN links : links[i].a = <<>> /\ subtext[i].score = <<TSingular>>
    /\ \E i \in DOMAIN links :
          /\ links[i].a # <<>>
          /\ links[i].a[1].href = <<>>
          /\ subtext[i].score = <<T500>>

\* C5 (missing score): a metadata node without a score element has score 0,
\* and processing its index appends nothing, whatever the link holds.
C5_MissingScore ==
    [][(AtPairedIndex /\ subtext[index + 1].score = <<>>)
          => /\ extract_score(subtext[index + 1]) = <<0>>
             /\ filtered_stories' = filtered_stories
             /\ index' = index + 1
             /\ pc' = "loop"
             /\ err' = "none"]_vars

\* A finished run in which a usable link was paired with a metadata node
\* that has no score element, and another story was kept.
C5_Witness ==
    /\ pc = "done"
    /\ result # <<>>
    /\ \E i \in DOMAIN links : HasNonEmptyHref(links[i]) /\ subtext[i].score = <<>>

\* C6 (all or nothing): a run that ended with an uncaught error has printed
\* nothing; anything printed is one list, printed after every index was
\* processed, holding every kept story, sorted.
C6_AllOrNothing ==
    /\ pc = "error" => stdout = <<>> /\ err # "none"
    /\ stdout # <<>> =>
          /\ pc = "done"
          /\ err = "none"
          /\ index = Len(links)
          /\ Len(stdout) = 1
          /\ Len(stdout[1]) = Len(KeptUpTo(Len(links)))
          /\ \A i \in DOMAIN links :
                Kept(i) => Occurrences(stdout[1], StoryAt(i))
                              = Occurrences(KeptUpTo(Len(links)), StoryAt(i))
          /\ \A i \in 1..(Len(stdout[1]) - 1) :
                stdout[1][i].Score >= stdout[1][i + 1].Score

\* A run that failed at its last index after it had already kept a story.
C6_Witness ==
    /\ pc = "error"
    /\ filtered_stories # <<>>
    /\ index = Len(links) - 1

\* C7 as stated: whichever list is longer, no IndexError is raised and the
\* loop ends after the indices of the shorter list.
C7_SilentTruncation ==
    Len(soup.titleline) # Len(soup.subtext) => err # "IndexError"

\* C7 (length mismatch, amended): extra metadata nodes are ignored and the
\* returned list is that of the first len(links) pairs; with more links than
\* metadata nodes nothing is returned or printed, and the IndexError is
\* raised at index len(subtext), by the first link without a metadata node.
C7_Mismatch ==
    /\ (Returned /\ Len(subtext) > Len(links)) =>
          /\ err = "none"
          /\ index = Len(links)
          /\ result = sort_stories_by_votes(KeptUpTo(Len(links)))
    /\ (pc \notin {"fetch", "select_links", "select_subtext"}
           /\ Len(links) > Len(subtext)) =>
          /\ ~Returned
          /\ stdout = <<>>
          /\ index <= Len(subtext)
    /\ err = "IndexError" =>
          /\ pc = "error"
          /\ Len(links) > Len(subtext)
          /\ index = Len(subtext)
          /\ stdout = <<>>

\* A run that kept a story and then reached a link without a metadata node.
C7_Witness ==
    /\ err = "IndexError"
    /\ index > 0
    /\ filtered_stories # <<>>

\* "<digits> points"
ConformsToPoints(t) ==
    /\ Len(t) > Len(PointsLabel)
    /\ SubSeq(t, Len(t) - Len(PointsLabel) + 1, Len(t)) = PointsLabel
    /\ \A i \in 1..(Len(t) - Len(PointsLabel)) : IsDigit(t[i])

\* C8 as stated, read with lists of equal length: a page with a score text
\* that is not "<digits> points" never gets as far as a returned list.
C8_AnyMalformedScoreAborts ==
    (/\ Len(soup.titleline) = Len(soup.subtext)
     /\ \E i \in DOMAIN soup.subtext :
           /\ soup.subtext[i].score # <<>>
           /\ ~ConformsToPoints(soup.subtext[i].score[1]))
      => ~Returned

\* The text still holds a letter once every " points" is removed.
LetterLeft(t) ==
    LET rest == StrReplace(t, PointsLabel, <<>>)
    IN \E i \in DOMAIN rest : rest[i] \in Letters

\* C8 (parse error, amended): when the loop reaches a link with a non-empty
\* href whose metadata node has a score text that keeps a letter after the
\* removal of " points" (as "1 point" does), ValueError is raised, nothing
\* catches it, and the run ends there with nothing printed.
C8_ParseError ==
    /\ [][(AtPairedIndex /\ HasNonEmptyHref(links[index + 1])
              /\ subtext[index + 1].score # <<>>
              /\ LetterLeft(subtext[index + 1].score[1]))
            => (pc' = "error" /\ err' = "ValueError" /\ stdout' = <<>>)]_vars
    /\ [][pc # "error"]_vars
    /\ [](err = "ValueError" => pc = "error" /\ stdout = <<>>)

\* A run that processed one pair and failed to parse the score of the next.
C8_Witness ==
    /\ pc = "error"
    /\ err = "ValueError"
    /\ index = 1
    /\ subtext[2].score = <<TSingular>>

\* C9 as stated: with lists of equal length, the returned list holds one
\* record for every index whose anchor has an href attribute and whose score
\* is above 100, and nothing else.
C9_ExactWithAnyHref ==
    (pc = "done" /\ Len(links) = Len(subtext)) =>
        \A i \in DOMAIN links :
            (HasHrefAttribute(links[i]) /\ ScoreAbove(i)) =>
                Occurrences(result, StoryAt(i)) >= 1

\* C9 (exactness, amended): with lists of equal length, the returned list
\* holds one record for every index whose anchor has a non-empty href and
\* whose score is above 100, built from link i and metadata i, and nothing
\* else.
C9_Exact ==
    (pc = "done" /\ Len(links) = Len(subtext)) =>
        /\ Len(result) = Cardinality({i \in DOMAIN links : Kept(i)})
        /\ Len(result) <= Len(links)
        /\ \A i \in DOMAIN links :
              Kept(i) =>
                  Occurrences(result, StoryAt(i))
                     = Cardinality({j \in DOMAIN links : Kept(j) /\ StoryAt(j) = StoryAt(i)})
        /\ \A k \in DOMAIN result :
              \E i \in DOMAIN links : Kept(i) /\ StoryAt(i) = result[k]

\* A run over two pairs that kept one story and dropped the other.
C9_Witness ==
    /\ pc = "done"
    /\ Len(links) = 2
    /\ Len(subtext) = 2
    /\ Len(result) = 1
    /\ HasNonEmptyHref(links[1])
    /\ HasNonEmptyHref(links[2])
    /\ links[1] # links[2]

\* C10 (linear control flow): one request at most, and exactly one once the
\* fetch is over; nothing is built before the fetch; the index only moves one
\* up, inside the loop; sorting follows the last index; one print at most,
\* of the sorted list; a finished run takes no further step; every run
\* finishes.
C10_State ==
    /\ requests_sent <= 1
    /\ pc # "fetch" => requests_sent = 1
    /\ requests_sent = 0 =>
          filtered_stories = <<>> /\ index = 0 /\ result = <<>> /\ stdout = <<>>
    /\ index <= Len(links)
    /\ Returned => index = Len(links)

C10_Step ==
    /\ index' = index \/ (index' = index + 1 /\ pc = "loop" /\ pc' = "loop")
    /\ result' # result => (pc = "loop" /\ pc' = "print")
    /\ stdout' # stdout => (pc = "print" /\ stdout = <<>> /\ stdout' = <<result>>)
    /\ ~Final

C10_Linear == [][C10_State /\ C10_State' /\ C10_Step]_vars /\ <>Final

\* A finished run that went round the loop twice and printed its list.
C10_Witness ==
    /\ pc = "done"
    /\ index = 2
    /\ requests_sent = 1
    /\ stdout = <<result>>
    /\ result # <<>>

====
